---- MODULE Spec2Model ----
(***************************************************************************)
(* A model of neu.py: given a PubMed ID, fetch the article's XML metadata  *)
(* (fetch_pubmed_xml), extract the abstract                                 *)
(* (extract_abstract_from_pubmed_xml), run it through the Glida NER web     *)
(* service (apply_glida_ner_to_text) and write the answer to "<PMID>.json". *)
(*                                                                          *)
(* Documents are sequences of markup tokens (start tag, end tag, character  *)
(* data); Python str and bytes values are sequences of one-character        *)
(* strings.  A Python local that is not bound yet is NoneVal.               *)
(***************************************************************************)
EXTENDS Integers, Sequences, FiniteSets, TLC

\* ------------------------------------------------------------------ bounds
\* Longest document (in tokens) the eFetch service answers with in a run of main.
MaxDocLen == 3
\* Longest document (in tokens) given to extract_abstract_from_pubmed_xml alone.
MaxXmlLen == 8
\* Number of times main is run, one run after the other.
MaxRuns == 2

\* ------------------------------------------------------------------ values
Some(v) == [some |-> TRUE, v |-> v]
NoneVal == [some |-> FALSE, v |-> <<>>]

\* Element names: the one the XPath expression names, and another one.
AbstractTextTag == "AbstractText"
Tags == {AbstractTextTag, "i"}
\* Characters of character data.
Chars == {"a", "b"}

\* The tokens of a document: <tag>, </tag>, and one character of text.
Tokens == [k : {"open", "close"}, v : Tags] \cup [k : {"text"}, v : Chars]

\* The tokens of the documents eFetch answers with in a run of main: those of
\* the one element name.
EFetchTokens == {t \in Tokens : t.k = "text" \/ t.v = AbstractTextTag}

\* The byte strings of at most n of the tokens.
Docs(tokens, n) == UNION {[1..m -> tokens] : m \in 0..n}

\* ------------------------------------------------- lxml.etree.fromstring
\* An element under construction or finished: its tag and its children in
\* document order, each a text node (k = "text", v = its characters) or an
\* element (k = "elem", v = the element).
NewElement(tag) == [tag |-> tag, kids |-> <<>>]

ParseFail == [ok |-> FALSE, root |-> NewElement("")]

\* Character data c arrives inside the innermost open element: it extends the
\* text node that ends there, or starts a new one.
AddText(stack, c) ==
    LET n == Len(stack)
        top == stack[n]
        m == Len(top.kids)
    IN IF m > 0 /\ top.kids[m].k = "text"
       THEN [stack EXCEPT ![n].kids[m].v = @ \o <<c>>]
       ELSE [stack EXCEPT ![n].kids = Append(@, [k |-> "text", v |-> <<c>>])]

\* A finished element becomes the last child of the innermost open element.
AddElement(stack, node) ==
    [stack EXCEPT ![Len(stack)].kids = Append(@, [k |-> "elem", v |-> node])]

RECURSIVE ParseFrom(_, _, _)
ParseFrom(toks, i, stack) ==
    IF i > Len(toks) THEN ParseFail          \* no root element, or it never ends
    ELSE LET t == toks[i] IN
         CASE t.k = "open" ->
                ParseFrom(toks, i + 1, Append(stack, NewElement(t.v)))
           [] t.k = "text" ->
                IF stack = <<>> THEN ParseFail     \* text outside the root
                ELSE ParseFrom(toks, i + 1, AddText(stack, t.v))
           [] OTHER ->
                IF stack = <<>> \/ stack[Len(stack)].tag # t.v
                THEN ParseFail                     \* end tag matches no start tag
                ELSE LET node == stack[Len(stack)]
                         rest == SubSeq(stack, 1, Len(stack) - 1)
                     IN IF rest = <<>>
                        THEN IF i = Len(toks)
                             THEN [ok |-> TRUE, root |-> node]
                             ELSE ParseFail        \* content after the root
                        ELSE ParseFrom(toks, i + 1, AddElement(rest, node))

\* A parser that recovers from errors: at the first error it closes every
\* element still open and answers with the tree read so far.
RECURSIVE CloseAll(_)
CloseAll(stack) ==
    IF Len(stack) = 1 THEN stack[1]
    ELSE CloseAll(AddElement(SubSeq(stack, 1, Len(stack) - 2) \o
                             <<stack[Len(stack) - 1]>>, stack[Len(stack)]))

RECURSIVE RecoverFrom(_, _, _)
RecoverFrom(toks, i, stack) ==
    IF i > Len(toks)
    THEN IF stack = <<>> THEN ParseFail ELSE [ok |-> TRUE, root |-> CloseAll(stack)]
    ELSE LET t == toks[i] IN
         CASE t.k = "open" ->
                RecoverFrom(toks, i + 1, Append(stack, NewElement(t.v)))
           [] t.k = "text" ->
                IF stack = <<>> THEN RecoverFrom(toks, i + 1, stack)
                ELSE RecoverFrom(toks, i + 1, AddText(stack, t.v))
           [] OTHER ->
                IF stack = <<>> \/ stack[Len(stack)].tag # t.v
                THEN RecoverFrom(toks, i + 1, stack)
                ELSE LET node == stack[Len(stack)]
                         rest == SubSeq(stack, 1, Len(stack) - 1)
                     IN IF rest = <<>>
                        THEN [ok |-> TRUE, root |-> node]
                        ELSE RecoverFrom(toks, i + 1, AddElement(rest, node))

\* fromstring with a parser made with recover=True.
fromstring_recover(xml) == RecoverFrom(xml, 1, <<>>)

\* lxml.etree.fromstring(xml): the root element, or XMLSyntaxError (ok = FALSE).
fromstring(xml) == ParseFrom(xml, 1, <<>>)

\* ------------------------------------------ root.xpath("//AbstractText/text()")
\* The text nodes selected in the subtree of node, from its j-th child on, in
\* document order: a text node is selected when its parent is an AbstractText.
RECURSIVE SelectFrom(_, _)
SelectFrom(node, j) ==
    IF j > Len(node.kids) THEN <<>>
    ELSE LET kid == node.kids[j] IN
         (IF kid.k = "text"
          THEN IF node.tag = AbstractTextTag THEN <<kid.v>> ELSE <<>>
          ELSE SelectFrom(kid.v, 1))
         \o SelectFrom(node, j + 1)

\* "//AbstractText//text()": every text node below an AbstractText element.
RECURSIVE SelectBelow(_, _, _)
SelectBelow(node, j, inside) ==
    IF j > Len(node.kids) THEN <<>>
    ELSE LET kid == node.kids[j]
             within == inside \/ node.tag = AbstractTextTag
         IN (IF kid.k = "text"
             THEN IF within THEN <<kid.v>> ELSE <<>>
             ELSE SelectBelow(kid.v, 1, within))
            \o SelectBelow(node, j + 1, inside)

xpath_descendant_text(root) == SelectBelow(root, 1, FALSE)

xpath_AbstractText_text(root) == SelectFrom(root, 1)

\* sep.join(parts)
RECURSIVE join(_, _)
join(sep, parts) ==
    IF parts = <<>> THEN <<>>
    ELSE IF Len(parts) = 1 THEN parts[1]
    ELSE parts[1] \o sep \o join(sep, Tail(parts))

\* A join that puts a space between the parts.
JoinSeparatorSpace == <<" ">>

\* The separator of line 54's join: the empty string.
JoinSeparator == <<>>

\* extract_abstract_from_pubmed_xml(xml): ok and the str returned, or not ok
\* when fromstring raises.
extract_abstract_from_pubmed_xml(xml) ==
    LET parsed == fromstring(xml)
    IN IF parsed.ok
       THEN [ok |-> TRUE, text |-> join(JoinSeparator, xpath_AbstractText_text(parsed.root))]
       ELSE [ok |-> FALSE, text |-> <<>>]

\* ------------------------------------------------------------ the services
\* What a request can come to: a response with a status and a body, no answer
\* within the timeout, or no connection.
Answer(status, content) == [kind |-> "response", status |-> status, content |-> content]

FailedAnswers ==
    {Answer(s, <<>>) : s \in {404, 500}}
    \cup {[kind |-> k, status |-> 0, content |-> <<>>] : k \in {"timeout", "connect_error"}}

NoResponse == [kind |-> "none", status |-> 0, content |-> <<>>]

\* The well-formed documents, by the grammar of markup: a document is one
\* element; an element is a start tag, content and the end tag of the same
\* name; content is a sequence of characters and elements.  Content[m] is the
\* content of m tokens.
StartTag(tag) == [k |-> "open", v |-> tag]
EndTag(tag) == [k |-> "close", v |-> tag]
CharData(c) == [k |-> "text", v |-> c]
ElementOf(tag, inner) == <<StartTag(tag)>> \o inner \o <<EndTag(tag)>>

Content[m \in Nat] ==
    IF m = 0 THEN {<<>>}
    ELSE {<<CharData(c)>> \o r : c \in Chars, r \in Content[m - 1]}
         \cup UNION {{ElementOf(t, inner) \o r :
                         t \in Tags, inner \in Content[n - 2], r \in Content[m - n]} :
                     n \in 2..m}

WellFormedOfLen(n) ==
    IF n < 2 THEN {} ELSE {ElementOf(t, inner) : t \in Tags, inner \in Content[n - 2]}

WellFormedDocs(n) == UNION {WellFormedOfLen(m) : m \in 0..n}

\* eFetch answers a GET with any document, or fails.
EFetchAnswers == {Answer(200, d) : d \in Docs(EFetchTokens, MaxDocLen)} \cup FailedAnswers

\* Glida answers a POST with bytes: here the text it was given, wrapped, or an
\* empty list of annotations; or it fails.
Echo(text) == <<"{">> \o (IF text.some THEN text.v ELSE <<"null">>) \o <<"}">>

GlidaAnswers(text) == {Answer(200, Echo(text)), Answer(200, <<"[", "]">>)} \cup FailedAnswers

\* ------------------------------------------------------------ DefaultClient
\* A hook that raises on a 5xx status only.
raise_for_status_5xx_only(status) == status >= 500 /\ status <= 599

\* The response hook, raise_for_status: raises on a 4xx or 5xx status.
raise_for_status(status) == status >= 400 /\ status <= 599

\* Whether client.get / client.post raises on this outcome: the hook raises, or
\* the transport does (timeout, no connection).
RequestRaises(outcome) ==
    outcome.kind # "response" \/ raise_for_status(outcome.status)

\* A client that is closed only when the body of its block did not raise.
ClientsAfterExitLeak(clients, c, raised) == IF raised THEN clients ELSE clients \ {c}

\* Leaving the with block closes the client, whether or not the body raised.
ClientsAfterExit(clients, c, raised) == clients \ {c}

\* --------------------------------------------------------------------- main
\* The parameters of line 45's GET and the JSON body of line 62's POST.
EFetchParams(id) == [db |-> "pubmed", id |-> id, retmode |-> "xml"]

GlidaJson(text) == [text |-> text]

\* A path without the extension.
OutputPathNoSuffix(id) == id

\* Line 72's path.
OutputPath(id) == id \o ".json"

\* A file opened in mode "ab".
BytesAfterAppend(old, written) == old \o written

\* Path.write_bytes opens the file in mode "wb": what the file holds once the
\* bytes written are written, given what it held (<<>> when it did not exist).
BytesAfterWrite(old, written) == written

\* A main that catches what a stage raises and goes on to the next stage.
PropagateSwallowed(stage) ==
    CASE stage = "fetch" -> "extract"
      [] stage = "extract" -> "glida"
      [] stage = "glida" -> "write"
      [] OTHER -> "error"

\* main has no try/except: an exception raised by a stage ends the run.  The
\* value is where main is once the stage has raised.
Propagate(stage) == "error"

\* The identifiers main is run with.  The runs of one behaviour are all given
\* the same identifier, so that each finds the file the one before it left.
Pmids == {"12345", "7"}

VARIABLES
    pc,              \* where the run of main is
    pmid,            \* main's argument
    pubmed_xml,      \* main's locals
    abstract,
    glida_ner_json,
    client,          \* the client of the with block being executed (0: none)
    response,        \* the response bound in the with block
    exc,             \* the exception in flight ("none": none)
    open,            \* the clients that are open
    created,         \* how many clients this run has created
    fs,              \* the files of the working directory: path -> bytes
    runs,            \* how many runs of main have started
    err,             \* the exception main's run ended with
    requests,        \* history: the requests this run has issued, in order
    stages,          \* history: the stages this run has started and ended, in order
    fsBefore         \* history: fs when this run started

vars == <<pc, pmid, pubmed_xml, abstract, glida_ner_json, client, response, exc,
          open, created, fs, runs, err, requests, stages, fsBefore>>

locals == <<pubmed_xml, abstract, glida_ner_json>>

Event(stage, ev) == [stage |-> stage, ev |-> ev]

Fresh ==
    /\ pubmed_xml = NoneVal /\ abstract = NoneVal /\ glida_ner_json = NoneVal
    /\ client = 0 /\ response = NoResponse /\ exc = "none"
    /\ open = {} /\ created = 0 /\ err = "none"
    /\ requests = <<>> /\ stages = <<>>

Init ==
    /\ pc = "idle" /\ pmid \in Pmids /\ runs = 0
    /\ fs = <<>> /\ fsBefore = <<>>
    /\ Fresh

\* python neu.py <pmid>: a new process runs main.
Start ==
    /\ pc \in {"idle", "done", "error"}
    /\ runs < MaxRuns
    /\ pc' = "fetch" /\ pmid' = pmid /\ runs' = runs + 1
    /\ fsBefore' = fs /\ fs' = fs
    /\ pubmed_xml' = NoneVal /\ abstract' = NoneVal /\ glida_ner_json' = NoneVal
    /\ client' = 0 /\ response' = NoResponse /\ exc' = "none"
    /\ open' = {} /\ created' = 0 /\ err' = "none"
    /\ requests' = <<>> /\ stages' = <<>>

\* Entering a with block (lines 44, 61): DefaultClient() makes a new client.
EnterWith(stage, here, there) ==
    /\ pc = here
    /\ created' = created + 1
    /\ client' = created + 1
    /\ open' = open \cup {created + 1}
    /\ stages' = Append(stages, Event(stage, "start"))
    /\ pc' = there
    /\ UNCHANGED <<pmid, locals, response, exc, fs, runs, err, requests, fsBefore>>

\* The request of a with block (lines 45, 62) and its outcome.
Request(here, there, method, arg, outcome) ==
    /\ pc = here
    /\ requests' = Append(requests, [method |-> method, client |-> client,
                                      arg |-> arg, outcome |-> outcome])
    /\ IF RequestRaises(outcome)
       THEN exc' = "RemoteServiceError" /\ response' = NoResponse
       ELSE exc' = "none" /\ response' = outcome
    /\ pc' = there
    /\ UNCHANGED <<pmid, locals, client, open, created, fs, runs, err, stages, fsBefore>>

FetchEnter == EnterWith("fetch", "fetch", "fetch_get")

FetchGet ==
    \E outcome \in EFetchAnswers :
        Request("fetch_get", "fetch_exit", "GET", EFetchParams(pmid), outcome)

\* Lines 44-46 and 67: the with block is left, and fetch_pubmed_xml returns
\* response.content to main or the exception goes on.
FetchExit ==
    /\ pc = "fetch_exit"
    /\ open' = ClientsAfterExit(open, client, exc # "none")
    /\ client' = 0 /\ response' = NoResponse /\ exc' = "none"
    /\ IF exc # "none"
       THEN /\ err' = exc
            /\ stages' = Append(stages, Event("fetch", "fail"))
            /\ pc' = Propagate("fetch")
            /\ UNCHANGED pubmed_xml
       ELSE /\ pubmed_xml' = Some(response.content)
            /\ stages' = Append(stages, Event("fetch", "ok"))
            /\ pc' = "extract"
            /\ UNCHANGED err
    /\ UNCHANGED <<pmid, abstract, glida_ner_json, created, fs, runs, requests, fsBefore>>

\* Line 68.
Extract ==
    /\ pc = "extract"
    /\ LET got == IF pubmed_xml.some
                  THEN extract_abstract_from_pubmed_xml(pubmed_xml.v)
                  ELSE [ok |-> FALSE, text |-> <<>>]
       IN IF got.ok
          THEN /\ abstract' = Some(got.text)
               /\ stages' = stages \o <<Event("extract", "start"), Event("extract", "ok")>>
               /\ pc' = "glida"
               /\ UNCHANGED err
          ELSE /\ err' = IF pubmed_xml.some THEN "ParseError" ELSE "TypeError"
               /\ stages' = stages \o <<Event("extract", "start"), Event("extract", "fail")>>
               /\ pc' = Propagate("extract")
               /\ UNCHANGED abstract
    /\ UNCHANGED <<pmid, pubmed_xml, glida_ner_json, client, response, exc, open,
                   created, fs, runs, requests, fsBefore>>

GlidaEnter == EnterWith("annotate", "glida", "glida_post")

GlidaPost ==
    \E outcome \in GlidaAnswers(abstract) :
        Request("glida_post", "glida_exit", "POST", GlidaJson(abstract), outcome)

\* Lines 61-63 and 69.
GlidaExit ==
    /\ pc = "glida_exit"
    /\ open' = ClientsAfterExit(open, client, exc # "none")
    /\ client' = 0 /\ response' = NoResponse /\ exc' = "none"
    /\ IF exc # "none"
       THEN /\ err' = exc
            /\ stages' = Append(stages, Event("annotate", "fail"))
            /\ pc' = Propagate("glida")
            /\ UNCHANGED glida_ner_json
       ELSE /\ glida_ner_json' = Some(response.content)
            /\ stages' = Append(stages, Event("annotate", "ok"))
            /\ pc' = "write"
            /\ UNCHANGED err
    /\ UNCHANGED <<pmid, pubmed_xml, abstract, created, fs, runs, requests, fsBefore>>

Held(files, path) == IF path \in DOMAIN files THEN files[path] ELSE <<>>

WithFile(files, path, bytes) ==
    [p \in DOMAIN files \cup {path} |-> IF p = path THEN bytes ELSE files[p]]

\* Line 72, Path(f"{pmid}.json").write_bytes(glida_ner_json): the file cannot
\* be opened; or it is opened, which creates or empties it, and n of the bytes
\* are written before the write fails (n less than their number) or all are.
Write ==
    /\ pc = "write"
    /\ LET path == OutputPath(pmid) IN
       \/ /\ fs' = fs
          /\ err' = IF glida_ner_json.some THEN "IOWriteError" ELSE "TypeError"
          /\ stages' = stages \o <<Event("write", "start"), Event("write", "fail")>>
          /\ pc' = "error"
       \/ /\ glida_ner_json.some
          /\ \E n \in 0..(Len(glida_ner_json.v) - 1) :
                fs' = WithFile(fs, path,
                               BytesAfterWrite(Held(fs, path), SubSeq(glida_ner_json.v, 1, n)))
          /\ err' = "IOWriteError"
          /\ stages' = stages \o <<Event("write", "start"), Event("write", "fail")>>
          /\ pc' = "error"
       \/ /\ glida_ner_json.some
          /\ fs' = WithFile(fs, path, BytesAfterWrite(Held(fs, path), glida_ner_json.v))
          /\ stages' = stages \o <<Event("write", "start"), Event("write", "ok")>>
          /\ pc' = "done"
          /\ UNCHANGED err
    /\ UNCHANGED <<pmid, locals, client, response, exc, open, created, runs,
                   requests, fsBefore>>

Next ==
    \/ Start
    \/ FetchEnter
    \/ FetchGet
    \/ FetchExit
    \/ Extract
    \/ GlidaEnter
    \/ GlidaPost
    \/ GlidaExit
    \/ Write

Spec == Init /\ [][Next]_vars

\* extract_abstract_from_pubmed_xml alone, on every well-formed document of at
\* most MaxXmlLen tokens and every byte string of at most MaxDocLen tokens:
\* main is at line 68 with the document in pubmed_xml.
WellFormedInputs == WellFormedDocs(MaxXmlLen)

XmlInputs == WellFormedInputs \cup Docs(Tokens, MaxDocLen)

InitExtract ==
    /\ pc = "extract" /\ pmid = "12345" /\ runs = 1
    /\ \E d \in XmlInputs : pubmed_xml = Some(d)
    /\ abstract = NoneVal /\ glida_ner_json = NoneVal
    /\ client = 0 /\ response = NoResponse /\ exc = "none"
    /\ open = {} /\ created = 1 /\ err = "none"
    /\ requests = <<>>
    /\ stages = <<Event("fetch", "start"), Event("fetch", "ok")>>
    /\ fs = <<>> /\ fsBefore = <<>>

NextExtract == Extract

SpecExtract == InitExtract /\ [][NextExtract]_vars

\* =================================================================== claims
\* The output file of the run, as the specification names it.
OutFile == pmid \o ".json"

\* The file at path is the same in both directories: absent in both, or
\* present in both with the same bytes.
SameFile(f, g, path) ==
    /\ path \in DOMAIN f <=> path \in DOMAIN g
    /\ path \in DOMAIN f => f[path] = g[path]

StageFailed(stage) == \E i \in 1..Len(stages) : stages[i] = Event(stage, "fail")
StageStarted(stage) == \E i \in 1..Len(stages) : stages[i] = Event(stage, "start")
Issued(method) == {i \in 1..Len(requests) : requests[i].method = method}
RequestFailed(i) ==
    \/ requests[i].outcome.kind # "response"
    \/ requests[i].outcome.status >= 400

\* C1: in a run in which the Fetcher, the Extractor or the Annotation Client
\* has failed, the file <pmid>.json is as it was when the run started: absent
\* if it was absent, and with the same bytes if it existed.
C1_NoOutputWhenAStageFails ==
    (StageFailed("fetch") \/ StageFailed("extract") \/ StageFailed("annotate"))
        => SameFile(fs, fsBefore, OutFile)

\* A second run has ended in an error of the Annotation Client, with the file
\* of the first run in place.
C1_Witness ==
    /\ pc = "error" /\ StageFailed("annotate")
    /\ OutFile \in DOMAIN fs /\ fs[OutFile] # <<>>

\* C2: when a run ends with all stages done, <pmid>.json exists and holds
\* exactly the bytes the Annotation Client's POST was answered with; that POST
\* carried exactly the text that extraction yields for the document the
\* Fetcher's GET was answered with, and that GET asked for pmid.
C2_OutputIsAnnotationOfAbstract ==
    pc = "done" =>
        /\ Len(requests) = 2
        /\ requests[1].method = "GET" /\ requests[1].arg.id = pmid
        /\ requests[2].method = "POST"
        /\ LET got == extract_abstract_from_pubmed_xml(requests[1].outcome.content)
           IN got.ok /\ requests[2].arg = [text |-> Some(got.text)]
        /\ OutFile \in DOMAIN fs
        /\ fs[OutFile] = requests[2].outcome.content

\* A run has ended with the echo of a non-empty abstract in the file.
C2_Witness ==
    /\ pc = "done"
    /\ abstract = Some(<<"a">>)
    /\ OutFile \in DOMAIN fs /\ fs[OutFile] = <<"{", "a", "}">>

\* C3: the stages of a run start in the order fetch, extract, annotate, write,
\* each after the one before it has ended without failing, and nothing starts
\* after a stage has failed.
StageOrder == <<"fetch", "extract", "annotate", "write">>

C3_StagesStrictlyOrdered ==
    /\ Len(stages) <= 2 * Len(StageOrder)
    /\ \A i \in 1..Len(stages) :
          /\ stages[i].stage = StageOrder[(i + 1) \div 2]
          /\ (i % 2 = 1) => stages[i].ev = "start"
          /\ (i % 2 = 0) => stages[i].ev \in {"ok", "fail"}
          /\ stages[i].ev = "fail" => i = Len(stages)

\* A run has gone through all four stages.
C3_Witness == pc = "done" /\ Len(stages) = 8 /\ stages[8] = Event("write", "ok")

\* ---- extraction, stated on the tokens of the document
\* The characters of the document whose innermost enclosing element is an
\* AbstractText (inside = FALSE), or that have an AbstractText among their
\* enclosing elements (inside = TRUE), in document order.
RECURSIVE TextFrom(_, _, _, _)
TextFrom(toks, i, enclosing, inside) ==
    IF i > Len(toks) THEN <<>>
    ELSE LET t == toks[i] IN
         CASE t.k = "open" -> TextFrom(toks, i + 1, Append(enclosing, t.v), inside)
           [] t.k = "close" ->
                TextFrom(toks, i + 1, SubSeq(enclosing, 1, Len(enclosing) - 1), inside)
           [] OTHER ->
                (IF IF inside
                    THEN \E j \in 1..Len(enclosing) : enclosing[j] = AbstractTextTag
                    ELSE enclosing # <<>> /\ enclosing[Len(enclosing)] = AbstractTextTag
                 THEN <<t.v>> ELSE <<>>)
                \o TextFrom(toks, i + 1, enclosing, inside)

DirectText(toks) == TextFrom(toks, 1, <<>>, FALSE)
AllTextBelow(toks) == TextFrom(toks, 1, <<>>, TRUE)

\* The text content of the element whose start tag is just before token i: its
\* own characters, up to its end tag (depth counts the elements open in it).
RECURSIVE OwnText(_, _, _)
OwnText(toks, i, depth) ==
    IF i > Len(toks) THEN <<>>
    ELSE LET t == toks[i] IN
         CASE t.k = "open" -> OwnText(toks, i + 1, depth + 1)
           [] t.k = "close" -> IF depth = 0 THEN <<>> ELSE OwnText(toks, i + 1, depth - 1)
           [] OTHER -> (IF depth = 0 THEN <<t.v>> ELSE <<>>) \o OwnText(toks, i + 1, depth)

\* t1 + t2 + ... + tN: the text contents of the AbstractText elements, in the
\* order of their start tags.
RECURSIVE ConcatOwnText(_, _)
ConcatOwnText(toks, i) ==
    IF i > Len(toks) THEN <<>>
    ELSE (IF toks[i] = StartTag(AbstractTextTag) THEN OwnText(toks, i + 1, 0) ELSE <<>>)
         \o ConcatOwnText(toks, i + 1)

AbstractTextStarts(toks) == {i \in 1..Len(toks) : toks[i] = StartTag(AbstractTextTag)}

\* Whether the element whose start tag is just before token i has characters
\* of its own after the start tag of an AbstractText nested in it.
RECURSIVE TextAfterNested(_, _, _, _)
TextAfterNested(toks, i, depth, nested) ==
    IF i > Len(toks) THEN FALSE
    ELSE LET t == toks[i] IN
         CASE t.k = "open" ->
                TextAfterNested(toks, i + 1, depth + 1, nested \/ t.v = AbstractTextTag)
           [] t.k = "close" ->
                IF depth = 0 THEN FALSE ELSE TextAfterNested(toks, i + 1, depth - 1, nested)
           [] OTHER ->
                (depth = 0 /\ nested) \/ TextAfterNested(toks, i + 1, depth, nested)

NoTextAfterNested(toks) ==
    \A i \in AbstractTextStarts(toks) : ~TextAfterNested(toks, i + 1, 0, FALSE)

IsWellFormed(toks) == toks \in WellFormedInputs

\* C4 as stated: every well-formed document yields t1 + ... + tN, the text
\* contents of its AbstractText elements in document order.
C4_AsStated ==
    (pubmed_xml.some /\ IsWellFormed(pubmed_xml.v) /\ pc # "extract")
        => abstract = Some(ConcatOwnText(pubmed_xml.v, 1))

\* C4, amended: every well-formed document yields, with no separator, the
\* characters that are directly inside an AbstractText element (at any depth
\* of nesting), in document order, and nothing else: the empty string when
\* there is none.  This is t1 + ... + tN unless an AbstractText element has
\* characters of its own after an AbstractText nested inside it.
C4_DirectTextInDocumentOrder ==
    (pubmed_xml.some /\ IsWellFormed(pubmed_xml.v) /\ pc # "extract")
        => /\ pc # "error"
           /\ abstract = Some(DirectText(pubmed_xml.v))
           /\ NoTextAfterNested(pubmed_xml.v)
                => abstract = Some(ConcatOwnText(pubmed_xml.v, 1))

\* Two AbstractText elements, one after the other below another element, each
\* with text, have been extracted.
C4_Witness ==
    /\ pc = "glida"
    /\ pubmed_xml.v = ElementOf("i", ElementOf(AbstractTextTag, <<CharData("a")>>)
                                     \o ElementOf(AbstractTextTag, <<CharData("b")>>))
    /\ abstract = Some(<<"a", "b">>)

\* C5: a run that ends with all stages done, started when <pmid>.json already
\* existed, leaves in it exactly the bytes this run's POST was answered with,
\* whatever it held; so it is unchanged when those are the bytes it held.
C5_SecondRunOverwrites ==
    (pc = "done" /\ OutFile \in DOMAIN fsBefore) =>
        /\ OutFile \in DOMAIN fs
        /\ fs[OutFile] = glida_ner_json.v
        /\ fsBefore[OutFile] = glida_ner_json.v => fs = fsBefore

\* A second run has replaced a non-empty file by different bytes.
C5_Witness ==
    /\ pc = "done" /\ runs = 2
    /\ OutFile \in DOMAIN fsBefore /\ fsBefore[OutFile] = <<"[", "]">>
    /\ fs[OutFile] = <<"{", "a", "}">>

\* C6: a GET or POST answered with a 4xx or 5xx status, or not answered in
\* time, or not connected, ends the run with RemoteServiceError; each request
\* is issued at most once in a run, and no POST follows a failed GET.
C6_RemoteFailureEndsRunWithoutRetry ==
    /\ Cardinality(Issued("GET")) <= 1
    /\ Cardinality(Issued("POST")) <= 1
    /\ \A i \in 1..Len(requests) :
          RequestFailed(i) =>
              /\ i = Len(requests)
              /\ \/ pc \in {"fetch_exit", "glida_exit"} /\ exc = "RemoteServiceError"
                 \/ pc = "error" /\ err = "RemoteServiceError"
              /\ requests[i].method = "GET" => Issued("POST") = {}

\* A run has ended with RemoteServiceError on a POST answered with status 404.
C6_Witness ==
    /\ pc = "error" /\ err = "RemoteServiceError"
    /\ Len(requests) = 2
    /\ requests[2].method = "POST" /\ requests[2].outcome.status = 404

\* C7: when the document fetched is not well-formed, the run ends with
\* ParseError at the Extractor: no abstract is returned, no POST is issued and
\* <pmid>.json is as it was when the run started.
C7_MalformedDocumentEndsRun ==
    (pubmed_xml.some /\ ~IsWellFormed(pubmed_xml.v) /\ pc # "extract") =>
        /\ pc = "error" /\ err = "ParseError"
        /\ abstract = NoneVal
        /\ Issued("POST") = {}
        /\ ~StageStarted("annotate") /\ ~StageStarted("write")
        /\ SameFile(fs, fsBefore, OutFile)

\* A run has ended with ParseError on a document that ends inside an
\* AbstractText element with text.
C7_Witness ==
    /\ pc = "error" /\ err = "ParseError"
    /\ pubmed_xml = Some(<<StartTag(AbstractTextTag), CharData("a")>>)

\* C8: a run whose write of <pmid>.json fails leaves the file as it was when
\* the run started: absent, or with the bytes it had.
C8_FailedWriteLeavesFileAsItWas ==
    StageFailed("write") => SameFile(fs, fsBefore, OutFile)

\* C9: at most one client is open at any time; none is open when the
\* Extractor starts, when the write starts, or when the run has ended; and the
\* two requests of a run are issued on different clients.
C9_ClientsScopedToTheirCall ==
    /\ Cardinality(open) <= 1
    /\ pc \in {"idle", "fetch", "extract", "glida", "write", "done", "error"} => open = {}
    /\ pc \in {"fetch_get", "fetch_exit", "glida_post", "glida_exit"} => open = {client}
    /\ \A i, j \in 1..Len(requests) : i # j => requests[i].client # requests[j].client

\* A run has ended in an error of the POST, after both clients were used.
C9_Witness ==
    /\ pc = "error" /\ StageFailed("annotate")
    /\ Len(requests) = 2 /\ created = 2

\* C10: the abstract holds all the characters below each AbstractText
\* element, those inside its child elements too, in document order.
C10_AllTextBelowAbstractText ==
    (pubmed_xml.some /\ IsWellFormed(pubmed_xml.v) /\ pc # "extract")
        => abstract = Some(AllTextBelow(pubmed_xml.v))

====
